---- MODULE Spec2Model ----
(***************************************************************************)
(* Model of the HEFW migration script: the three-level walk                *)
(* main -> migrateGuild -> migrateProject -> migrateSubmission, the image  *)
(* cache (findImageInCache / cacheImage / findCacheOrFetch), the in-memory *)
(* accumulators mapping / failed / missing, and the files written by the   *)
(* exit handler, by the auto-save timer and by main.                       *)
(*                                                                         *)
(* One TLA+ step is one turn of the Node event loop: the arrival of the    *)
(* response the walk is awaiting together with the synchronous code that   *)
(* follows it up to the next await, a signal, or a timer tick.  The        *)
(* positions "main", "guild", "projects", "project", "subs" and "sub" are  *)
(* call boundaries inside one synchronous stretch; no signal or timer can  *)
(* run there.                                                              *)
(*                                                                         *)
(* The script is run again and again from the files the previous           *)
(* invocation left (Restart); the number of invocations is not bounded.    *)
(* successfullyProcessed and failed are arrays used only through push and  *)
(* includes and are kept as sets.  The content of a file or Buffer is the  *)
(* place its bytes came from; a Buffer also records whether it was read    *)
(* from the cache, from the originals or from the network.  The markdown   *)
(* conversion of line 397 changes nothing of this state and is left out.   *)
(***************************************************************************)
EXTENDS Naturals, Sequences, FiniteSets, TLC

\* --------------------------------------------------------- legacy snapshot
LegacyHost ==
    "s3.fr-par.scw.cloud"

OtherHost ==
    "cdn.example"

None ==
    "none"


\* The URLs of the snapshot: host and final path segment of each.
Urls ==
    [ uG1  |-> [host |-> OtherHost,  file |-> "g1.png"],
      uG2  |-> [host |-> LegacyHost, file |-> "g2.png"],
      uOg  |-> [host |-> OtherHost,  file |-> "og.png"],
      uVid |-> [host |-> OtherHost,  file |-> "v.mp4"],
      uM1  |-> [host |-> OtherHost,  file |-> "m.png"],
      uM2  |-> [host |-> "img.example", file |-> "m.png"],
      uIc  |-> [host |-> OtherHost,  file |-> "ic.png"],
      uA   |-> [host |-> OtherHost,  file |-> "a.png"],
      uB   |-> [host |-> LegacyHost, file |-> "b%20c.png"],
      uC   |-> [host |-> LegacyHost, file |-> "c.mp4"],
      uD   |-> [host |-> OtherHost,  file |-> "d%.png"] ]

UrlIds ==
    DOMAIN Urls

guilds ==
    << [_id |-> "g1", image |-> "uG1"],
       [_id |-> "g2", image |-> "uG2"] >>

projects ==
    << [_id |-> "p1", guild |-> "g1", ogImage |-> "uOg",
        media |-> << [type |-> "video", src |-> "uVid"],
                     [type |-> "image", src |-> "uM1"],
                     [type |-> "image", src |-> "uM2"] >>],
       [_id |-> "p2", guild |-> "g2", ogImage |-> None, media |-> << >>] >>

submissions ==
    << [_id |-> "sA", project |-> "p1", type |-> "image", src |-> "uA", srcIcon |-> "uIc"],
       [_id |-> "sB", project |-> "p1", type |-> "image", src |-> "uB", srcIcon |-> None],
       [_id |-> "sC", project |-> "p2", type |-> "video", src |-> "uC", srcIcon |-> None],
       [_id |-> "sD", project |-> "p2", type |-> "image", src |-> "uD", srcIcon |-> None] >>

GuildIds ==
    {guilds[i]._id : i \in 1..Len(guilds)}

ProjectIds ==
    {projects[i]._id : i \in 1..Len(projects)}

SubmissionIds ==
    {submissions[i]._id : i \in 1..Len(submissions)}

EntityIds ==
    GuildIds \cup ProjectIds \cup SubmissionIds

\* URLs the snapshot may hold in malformed form (one per behaviour, or none).
BadUrlChoices ==
    {None, "uM2"}

\* Files the operator may have put under images/orig/<folder>/.
OrigChoices ==
    { {}, {<<"p1", "a.png">>, <<"p1", "b c.png">>} }

\* ------------------------------------------------------------ pure helpers
\* decodeURIComponent on the file names of the snapshot: %20 is a space, a
\* lone % is a URIError, a name without escapes is unchanged.
decodeURIComponent(name) ==
    CASE name = "b%20c.png" -> [ok |-> TRUE, v |-> "b c.png"]
      [] name = "d%.png"    -> [ok |-> FALSE, v |-> name]
      [] OTHER              -> [ok |-> TRUE, v |-> name]

FileNames ==
    {Urls[u].file : u \in UrlIds}

Folders ==
    {"guilds"} \cup ProjectIds

CacheKeys ==
    Folders \X FileNames

NoFile ==
    [k |-> "absent", of |-> None]

NetContent(url) ==
    [k |-> "net", of |-> url]

OrigContent(folder, name) ==
    [k |-> "orig", of |-> <<folder, name>>]

NoBuf ==
    [content |-> NoFile, from |-> None]

\* The id of the placeholder media document (process.env.DEFAULT_MEDIA).
DEFAULT_MEDIA ==
    [content |-> [k |-> "default", of |-> None], from |-> None]

EmptyCache ==
    [key \in CacheKeys |-> NoFile]

\* cacheImage(folder, filename, file): writes the bytes under images/cache.
cacheImage(c, folder, filename, file) ==
    [c EXCEPT ![<<folder, filename>>] = file.content]

\* findImageInCache(folder, filename, isFailed) on cache c and originals o.
\* out is "bytes" (a Buffer), "null", or "throw" (an exception leaves it).
findImageInCache(c, o, folder, filename, isFailed) ==
    LET key == <<folder, filename>>
        dec == decodeURIComponent(filename)
        fromOrig(name) ==
            LET file == [content |-> OrigContent(folder, name), from |-> "orig"]
            IN  [out |-> "bytes", buf |-> file,
                 cache |-> cacheImage(c, folder, filename, file)]
        \* fs.unlinkSync of the cache path, which existsSync just found absent
        unlinkAbsent == [out |-> "throw", buf |-> NoBuf, cache |-> c]
    IN  IF c[key] # NoFile
        THEN IF isFailed
             THEN [out |-> "null", buf |-> NoBuf, cache |-> [c EXCEPT ![key] = NoFile]]
             ELSE [out |-> "bytes", buf |-> [content |-> c[key], from |-> "cache"],
                   cache |-> c]
        ELSE IF <<folder, filename>> \in o
        THEN IF isFailed THEN unlinkAbsent ELSE fromOrig(filename)
        ELSE IF ~dec.ok
        THEN [out |-> "throw", buf |-> NoBuf, cache |-> c]
        ELSE IF <<folder, dec.v>> \in o
        THEN IF isFailed THEN unlinkAbsent ELSE fromOrig(dec.v)
        ELSE [out |-> "null", buf |-> NoBuf, cache |-> c]

\* The synchronous part of findCacheOrFetch(folder, url, isFailed): the
\* cache lookup; out "null" means the GET of line 257 has been issued.
findCacheOrFetch(c, o, folder, url, isFailed) ==
    findImageInCache(c, o, folder, Urls[url].file, isFailed)

\* The rest of findCacheOrFetch once the GET has answered with the bytes.
fetched(c, folder, url) ==
    LET data == [content |-> NetContent(url), from |-> "net"]
    IN  [buf |-> data, cache |-> cacheImage(c, folder, Urls[url].file, data)]

\* Array.prototype.includes, as used on successfullyProcessed and failed.
includes(list, x) ==
    x \in list

qualifyingProjects(gid) ==
    SelectSeq(projects, LAMBDA pr : pr.guild = gid)

qualifyingSubmissions(pid) ==
    SelectSeq(submissions, LAMBDA su : su.project = pid)

\* ------------------------------------------------------------------- state
VARIABLES
    badUrl,      \* the URL the snapshot holds in malformed form, or None
    orig,        \* the files under images/orig
    mapping,     \* IMapping: guilds, projects, successfullyProcessed
    failed,      \* the ids of failed.json plus those pushed in this run
    missing,     \* the submissions pushed to missing in this run
    cache,       \* the files under images/cache
    pc,          \* where the walk is: [at, g, p, s]
    net,         \* the entity-creation request: none, pending, ok, err
    req,         \* newGuild / newProject / newSubmission under construction
    tasks,       \* the mediaTasks of the project being migrated
    disk,        \* data/idmap.json, data/missing.json, data/failed.json
    auto,        \* data/idmap_auto.json, data/missing_auto.json
    lastEnd,     \* how this invocation ended: none (running), done, signal, fault
    created,     \* legacy ids for which the CMS created an entity in this invocation
    createdPrev, \* the same for the previous invocation, if it was a full walk
    posts,       \* per legacy id, creation requests issued in this invocation
    gets,        \* URLs for which axios.get was called in this invocation
    visits,      \* per legacy id, calls of its migrate function in this invocation
    remoteFailed, \* a remote call of this invocation was answered with an error
    unfinishedPrev, \* ids the previous invocation visited and left unprocessed,
                 \* if it walked to its end (recorded by RestartRecording only)
    fic          \* the findImageInCache calls made in the last step

vars ==
    << badUrl, orig, mapping, failed, missing, cache, pc, net, req, tasks,
       disk, auto, lastEnd, created, createdPrev, posts, gets, visits,
       remoteFailed, unfinishedPrev, fic >>

UndefinedId ==
    [of |-> None, n |-> 0]

EmptyMapping ==
    [ guilds |-> [g \in GuildIds |-> UndefinedId],
      projects |-> [p \in ProjectIds |-> UndefinedId],
      successfullyProcessed |-> {} ]

NoReq ==
    [id |-> None, parent |-> UndefinedId, icon |-> NoBuf, media |-> << >>,
     url |-> None, file |-> NoBuf]

NoEntry ==
    [type |-> None, media |-> NoBuf, url |-> None]

At(label, g, p, s) ==
    [at |-> label, g |-> g, p |-> p, s |-> s]

\* The awaits of the walk: the event loop runs signals and timers here.
AwaitLabels ==
    { "g_get", "g_upload", "g_post", "p_get", "p_upload", "p_media", "p_post",
      "s_icon_get", "s_icon_upload", "s_img_get", "s_img_upload", "s_post" }

PostLabels ==
    {"g_post", "p_post", "s_post"}

\* new URL(u) throws a TypeError on a malformed or absent URL.
isBad(u) ==
    u = badUrl

\* isLegacy comparing with another host name.
isLegacy_typo(u) ==
    Urls[u].host = "s3.fr-par.scw.cloud.example"

\* imageUrl.host === 's3.fr-par.scw.cloud' (lines 279, 291, 327, 430, 476, 550).
isLegacy(u) ==
    Urls[u].host = LegacyHost

G ==
    guilds[pc.g]

P ==
    qualifyingProjects(G._id)[pc.p]

S ==
    qualifyingSubmissions(P._id)[pc.s]

\* What the record of a findImageInCache call keeps for the properties.
Fic(c, id, what, folder, filename, isFailed, r) ==
    [for |-> id, what |-> what, key |-> <<folder, filename>>, isFailed |-> isFailed,
     inFailed |-> id \in failed,
     hadCache |-> c[<<folder, filename>>] # NoFile,
     hadOrig |-> \/ <<folder, filename>> \in orig
                 \/ /\ decodeURIComponent(filename).ok
                    /\ <<folder, decodeURIComponent(filename).v>> \in orig,
     out |-> r.out, from |-> r.buf.from]

Init ==
    /\ badUrl \in BadUrlChoices
    /\ orig \in OrigChoices
    /\ mapping = EmptyMapping
    /\ failed = {}
    /\ missing = << >>
    /\ cache = EmptyCache
    /\ pc = At("main", 1, 0, 0)
    /\ net = "none"
    /\ req = NoReq
    /\ tasks = << >>
    /\ disk = [idmap |-> EmptyMapping, missing |-> << >>, failed |-> {}]
    /\ auto = [idmap |-> EmptyMapping, missing |-> << >>]
    /\ lastEnd = "none"
    /\ created = {}
    /\ createdPrev = {}
    /\ posts = [x \in EntityIds |-> 0]
    /\ gets = {}
    /\ visits = [x \in EntityIds |-> 0]
    /\ remoteFailed = FALSE
    /\ unfinishedPrev = {}
    /\ fic = << >>

\* ------------------------------------------------------ termination paths
\* exitHandler (and the 'exit' listener): writes idmap.json and missing.json
\* from memory, then process.exit().  failed.json is not written here.
exitHandler(how) ==
    /\ disk' = [disk EXCEPT !.idmap = mapping, !.missing = missing]
    /\ pc' = At("exited", 0, 0, 0)
    /\ lastEnd' = how
    /\ net' = "none"
    /\ req' = NoReq
    /\ tasks' = << >>
    /\ fic' = << >>
    /\ UNCHANGED << badUrl, orig, mapping, failed, missing, auto, created,
                    createdPrev, posts >>

\* An exception nothing catches: main's promise rejects, the rejection is
\* raised as an uncaught exception (Node 15 and later) and the handler of
\* line 617 runs.
Fault ==
    /\ exitHandler("fault")
    /\ UNCHANGED << cache, gets >>

\* SIGINT, SIGUSR1 or SIGUSR2 while the walk awaits a response.
Signal ==
    /\ pc.at \in AwaitLabels
    /\ exitHandler("signal")
    /\ UNCHANGED << cache, gets >>
    /\ UNCHANGED << visits, remoteFailed >>
    /\ UNCHANGED unfinishedPrev

\* AutoSave writing to the file names of lines 632-633 instead of those of
\* lines 621-622.
AutoSave_primary ==
    /\ pc.at \in AwaitLabels
    /\ disk' = [disk EXCEPT !.idmap = mapping, !.missing = missing]
    /\ UNCHANGED << badUrl, orig, mapping, failed, missing, cache, pc, net, req,
                    tasks, auto, lastEnd, created, createdPrev, posts, gets >>
    /\ fic' = << >>
    /\ UNCHANGED << visits, remoteFailed >>
    /\ UNCHANGED unfinishedPrev

\* The setInterval callback of main.
AutoSave ==
    /\ pc.at \in AwaitLabels
    /\ auto' = [idmap |-> mapping, missing |-> missing]
    /\ UNCHANGED << badUrl, orig, mapping, failed, missing, cache, pc, net, req,
                    tasks, disk, lastEnd, created, createdPrev, posts,
                    gets >>
    /\ fic' = << >>
    /\ UNCHANGED << visits, remoteFailed >>
    /\ UNCHANGED unfinishedPrev

\* The next invocation of the script: lines 194-199 load the files again.
Reload(unfinished) ==
    /\ pc.at = "exited"
    /\ mapping' = disk.idmap
    /\ failed' = disk.failed
    /\ missing' = << >>
    /\ pc' = At("main", 1, 0, 0)
    /\ lastEnd' = "none"
    /\ createdPrev' = IF lastEnd = "signal" THEN {} ELSE created
    /\ created' = {}
    /\ posts' = [x \in EntityIds |-> 0]
    /\ gets' = {}
    /\ UNCHANGED << badUrl, orig, cache, net, req, tasks, disk, auto >>
    /\ fic' = << >>
    /\ visits' = [x \in EntityIds |-> 0]
    /\ remoteFailed' = FALSE
    /\ unfinishedPrev' = unfinished

\* The next invocation of the script.
Restart ==
    Reload({})

\* Restart, recording for the claims about retries what the invocation that
\* ended left unfinished, if it walked to its end (line 630).
RestartRecording ==
    Reload(IF lastEnd = "done"
           THEN {x \in EntityIds : visits[x] > 0 /\ x \notin mapping.successfullyProcessed}
           ELSE {})

\* The CMS handles the entity-creation request in flight and answers.
RemoteRespond ==
    /\ pc.at \in PostLabels
    /\ net = "pending"
    /\ \/ /\ net' = "ok"
          /\ created' = created \cup {req.id}
          /\ UNCHANGED remoteFailed
       \/ /\ net' = "err"
          /\ remoteFailed' = TRUE
          /\ UNCHANGED created
    /\ UNCHANGED << badUrl, orig, mapping, failed, missing, cache, pc, req, tasks,
                    disk, auto, lastEnd, createdPrev, posts, gets >>
    /\ fic' = << >>
    /\ UNCHANGED visits
    /\ UNCHANGED unfinishedPrev

\* doc.id of the answer to the request in flight: the id the CMS gave the
\* entity it created for the legacy id.
DocId ==
    [of |-> req.id, n |-> 1]

\* axiosInstance.post of an entity: the request leaves.
Post(r) ==
    /\ req' = r
    /\ net' = "pending"
    /\ posts' = [posts EXCEPT ![r.id] = @ + 1]

NoPost ==
    /\ net' = "none"
    /\ UNCHANGED posts

\* ---------------------------------------------------------------- main
MainNextGuild ==
    /\ pc.at = "main"
    /\ pc.g <= Len(guilds)
    /\ pc' = At("guild", pc.g, 0, 0)
    /\ UNCHANGED << badUrl, orig, mapping, failed, missing, cache, net, req, tasks,
                    disk, auto, lastEnd, created, createdPrev, posts,
                    gets >>
    /\ fic' = << >>
    /\ UNCHANGED << visits, remoteFailed >>
    /\ UNCHANGED unfinishedPrev

\* Lines 630-636, then the 'exit' listeners once the event loop is empty.
MainFinish ==
    /\ pc.at = "main"
    /\ pc.g > Len(guilds)
    /\ disk' = [idmap |-> mapping, missing |-> missing, failed |-> failed]
    /\ pc' = At("exited", 0, 0, 0)
    /\ lastEnd' = "done"
    /\ net' = "none"
    /\ req' = NoReq
    /\ tasks' = << >>
    /\ fic' = << >>
    /\ UNCHANGED << badUrl, orig, mapping, failed, missing, cache, auto,
                    created, createdPrev, posts, gets >>
    /\ UNCHANGED << visits, remoteFailed >>
    /\ UNCHANGED unfinishedPrev

\* ------------------------------------------------------------ migrateGuild
\* return from migrateGuild: the for loop of main goes on.
GuildReturn ==
    pc' = At("main", pc.g + 1, 0, 0)

newGuild(icon) ==
    [NoReq EXCEPT !.id = G._id, !.icon = icon]

\* Lines 527-576 up to the first await.
MigrateGuildEnter ==
    /\ pc.at = "guild"
    /\ IF includes(mapping.successfullyProcessed, G._id)
       THEN /\ pc' = At("projects", pc.g, 1, 0)
            /\ UNCHANGED << cache, gets, req, net, posts, lastEnd, disk, tasks >>
            /\ fic' = << >>
       ELSE IF isBad(G.image)
       THEN Fault
       ELSE IF ~isLegacy(G.image)
       THEN LET r == findCacheOrFetch(cache, orig, "guilds", G.image, FALSE)
            IN  /\ cache' = r.cache
                /\ fic' = << Fic(cache, G._id, "icon", "guilds", Urls[G.image].file, FALSE, r) >>
                /\ req' = IF r.out = "throw" THEN NoReq
                           ELSE [newGuild(DEFAULT_MEDIA) EXCEPT !.file = r.buf]
                /\ gets' = IF r.out = "null" THEN gets \cup {G.image} ELSE gets
                /\ CASE r.out = "bytes" -> pc' = At("g_upload", pc.g, 0, 0)
                     [] r.out = "null"  -> pc' = At("g_get", pc.g, 0, 0)
                     [] OTHER           -> GuildReturn
                /\ NoPost
                /\ UNCHANGED << lastEnd, disk, tasks >>
       ELSE /\ Post(newGuild(DEFAULT_MEDIA))
            /\ pc' = At("g_post", pc.g, 0, 0)
            /\ UNCHANGED << cache, gets, lastEnd, disk, tasks >>
            /\ fic' = << >>
    /\ UNCHANGED << badUrl, orig, mapping, failed, missing, auto, created,
                    createdPrev >>
    /\ visits' = [visits EXCEPT ![G._id] = @ + 1]
    /\ UNCHANGED remoteFailed
    /\ UNCHANGED unfinishedPrev

\* The GET of the guild icon answers (line 257), or fails (catch, line 572).
GuildIconFetched ==
    /\ pc.at = "g_get"
    /\ \/ LET f == fetched(cache, "guilds", G.image)
          IN  /\ cache' = f.cache
              /\ req' = [req EXCEPT !.file = f.buf]
              /\ pc' = At("g_upload", pc.g, 0, 0)
              /\ UNCHANGED remoteFailed
       \/ /\ GuildReturn
          /\ req' = NoReq
          /\ remoteFailed' = TRUE
          /\ UNCHANGED cache
    /\ UNCHANGED << badUrl, orig, mapping, failed, missing, net, tasks, disk, auto,
                    lastEnd, created, createdPrev, posts, gets >>
    /\ fic' = << >>
    /\ UNCHANGED visits
    /\ UNCHANGED unfinishedPrev

\* The upload of the guild icon answers (line 560), or fails (catch, line 572).
GuildIconUploaded ==
    /\ pc.at = "g_upload"
    /\ \/ /\ Post([req EXCEPT !.icon = req.file])
          /\ pc' = At("g_post", pc.g, 0, 0)
          /\ UNCHANGED remoteFailed
       \/ /\ GuildReturn
          /\ req' = NoReq
          /\ remoteFailed' = TRUE
          /\ UNCHANGED << net, posts >>
    /\ UNCHANGED << badUrl, orig, mapping, failed, missing, cache, tasks, disk,
                    auto, lastEnd, created, createdPrev, gets >>
    /\ fic' = << >>
    /\ UNCHANGED visits
    /\ UNCHANGED unfinishedPrev

\* recordGuild without line 583.
recordGuild_nomap(m, id, newId) ==
    [m EXCEPT !.successfullyProcessed = @ \cup {id}]

\* Lines 578-586: the answer to POST /api/guilds is handled.
recordGuild(m, id, newId) ==
    [m EXCEPT !.guilds[id] = newId,
              !.successfullyProcessed = @ \cup {id}]

\* GuildCreated without the return of line 581: the loop of line 587 runs
\* after a failed POST as well.
GuildCreated_descend ==
    /\ pc.at = "g_post"
    /\ net \in {"ok", "err"}
    /\ mapping' = IF net = "ok" THEN recordGuild(mapping, G._id, DocId) ELSE mapping
    /\ pc' = At("projects", pc.g, 1, 0)
    /\ net' = "none"
    /\ req' = NoReq
    /\ UNCHANGED << badUrl, orig, failed, missing, cache, tasks, disk, auto,
                    lastEnd, created, createdPrev, posts, gets >>
    /\ fic' = << >>
    /\ UNCHANGED << visits, remoteFailed >>
    /\ UNCHANGED unfinishedPrev

\* Lines 578-590: the answer to POST /api/guilds is handled.
GuildCreated ==
    /\ pc.at = "g_post"
    /\ net \in {"ok", "err"}
    /\ IF net = "ok"
       THEN /\ mapping' = recordGuild(mapping, G._id, DocId)
            /\ pc' = At("projects", pc.g, 1, 0)
       ELSE /\ GuildReturn
            /\ UNCHANGED mapping
    /\ net' = "none"
    /\ req' = NoReq
    /\ UNCHANGED << badUrl, orig, failed, missing, cache, tasks, disk, auto,
                    lastEnd, created, createdPrev, posts, gets >>
    /\ fic' = << >>
    /\ UNCHANGED << visits, remoteFailed >>
    /\ UNCHANGED unfinishedPrev

\* The for loops of lines 531 and 587 over qualifyingProjects.
ProjectsLoop ==
    /\ pc.at = "projects"
    /\ IF pc.p <= Len(qualifyingProjects(G._id))
       THEN pc' = At("project", pc.g, pc.p, 0)
       ELSE GuildReturn
    /\ UNCHANGED << badUrl, orig, mapping, failed, missing, cache, net, req, tasks,
                    disk, auto, lastEnd, created, createdPrev, posts,
                    gets >>
    /\ fic' = << >>
    /\ UNCHANGED << visits, remoteFailed >>
    /\ UNCHANGED unfinishedPrev

\* ---------------------------------------------------------- migrateProject
\* return from migrateProject: the for loop of migrateGuild goes on.
ProjectReturn ==
    pc' = At("projects", pc.g, pc.p + 1, 0)

newProject(ogImage) ==
    [NoReq EXCEPT !.id = P._id, !.parent = mapping.guilds[P.guild], !.icon = ogImage]

Task(st, src, file, res) ==
    [st |-> st, src |-> src, file |-> file, res |-> res, up |-> FALSE]

\* Lines 465-509: project.media.map runs each callback up to its first await.
\* acc carries the cache, the tasks so far, the GETs issued, whether a
\* callback threw (its promise is rejected) and the last cache lookup.
RECURSIVE mediaTasks(_, _, _, _, _)
mediaTasks(acc, o, bad, project, i) ==
    IF i > Len(project.media)
    THEN acc
    ELSE LET media == project.media[i]
             r == findCacheOrFetch(acc.cache, o, project._id, media.src, FALSE)
             next ==
                IF media.type = "video"
                THEN [acc EXCEPT !.tasks = Append(@, Task("done", media.src, NoBuf,
                          [type |-> "video", media |-> NoBuf, url |-> media.src]))]
                ELSE IF media.type = "image" /\ media.src = bad
                THEN [acc EXCEPT !.tasks = Append(@, Task("done", media.src, NoBuf, NoEntry)),
                                 !.rejected = TRUE]
                ELSE IF media.type = "image" /\ ~isLegacy(media.src)
                THEN [acc EXCEPT
                        !.cache = r.cache,
                        !.gets = IF r.out = "null" THEN @ \cup {media.src} ELSE @,
                        !.fic = Append(@, Fic(acc.cache, project._id, "media",
                                   project._id, Urls[media.src].file, FALSE, r)),
                        !.tasks = Append(@,
                            CASE r.out = "bytes" -> Task("upload", media.src, r.buf, NoEntry)
                              [] r.out = "null"  -> Task("get", media.src, NoBuf, NoEntry)
                              [] OTHER           -> Task("done", media.src, NoBuf, NoEntry))]
                ELSE [acc EXCEPT !.tasks = Append(@, Task("done", media.src, NoBuf, NoEntry))]
         IN  mediaTasks(next, o, bad, project, i + 1)

\* Line 465 on: the media tasks start; a rejected task rejects Promise.all,
\* nothing catches it and the process ends (line 617).
StartMedia(rq, c) ==
    LET L == mediaTasks([cache |-> c, tasks |-> << >>, gets |-> gets,
                         rejected |-> FALSE, fic |-> << >>], orig, badUrl, P, 1)
    IN  /\ cache' = L.cache
        /\ gets' = L.gets
        /\ IF L.rejected
           THEN exitHandler("fault")
           ELSE /\ tasks' = L.tasks
                /\ fic' = L.fic
                /\ req' = rq
                /\ pc' = At("p_media", pc.g, pc.p, 0)
                /\ NoPost
                /\ UNCHANGED << lastEnd, disk >>

\* Lines 386-457 up to the first await.
MigrateProjectEnter ==
    /\ pc.at = "project"
    /\ IF includes(mapping.successfullyProcessed, P._id)
       THEN /\ pc' = At("subs", pc.g, pc.p, 1)
            /\ UNCHANGED << cache, gets, req, net, posts, lastEnd, disk, tasks >>
            /\ fic' = << >>
       ELSE IF P.ogImage = None \/ (~isBad(P.ogImage) /\ isLegacy(P.ogImage))
       THEN StartMedia(newProject(NoBuf), cache)
       ELSE IF isBad(P.ogImage)
       THEN Fault
       ELSE LET r == findCacheOrFetch(cache, orig, P._id, P.ogImage, FALSE)
            IN  /\ cache' = r.cache
                /\ fic' = << Fic(cache, P._id, "ogImage", P._id, Urls[P.ogImage].file, FALSE, r) >>
                /\ req' = IF r.out = "throw" THEN NoReq
                          ELSE [newProject(NoBuf) EXCEPT !.file = r.buf]
                /\ gets' = IF r.out = "null" THEN gets \cup {P.ogImage} ELSE gets
                /\ CASE r.out = "bytes" -> pc' = At("p_upload", pc.g, pc.p, 0)
                     [] r.out = "null"  -> pc' = At("p_get", pc.g, pc.p, 0)
                     [] OTHER           -> ProjectReturn
                /\ NoPost
                /\ UNCHANGED << lastEnd, disk, tasks >>
    /\ UNCHANGED << badUrl, orig, mapping, failed, missing, auto, created,
                    createdPrev >>
    /\ visits' = [visits EXCEPT ![P._id] = @ + 1]
    /\ UNCHANGED remoteFailed
    /\ UNCHANGED unfinishedPrev

\* The GET of the open-graph image answers, or fails (catch, line 452).
ProjectOgFetched ==
    /\ pc.at = "p_get"
    /\ \/ LET f == fetched(cache, P._id, P.ogImage)
          IN  /\ cache' = f.cache
              /\ req' = [req EXCEPT !.file = f.buf]
              /\ pc' = At("p_upload", pc.g, pc.p, 0)
              /\ UNCHANGED remoteFailed
       \/ /\ ProjectReturn
          /\ req' = NoReq
          /\ remoteFailed' = TRUE
          /\ UNCHANGED cache
    /\ UNCHANGED << badUrl, orig, mapping, failed, missing, net, tasks, disk, auto,
                    lastEnd, created, createdPrev, posts, gets >>
    /\ fic' = << >>
    /\ UNCHANGED visits
    /\ UNCHANGED unfinishedPrev

\* The upload of the open-graph image answers, or fails (catch, line 452).
ProjectOgUploaded ==
    /\ pc.at = "p_upload"
    /\ \/ /\ StartMedia([req EXCEPT !.icon = req.file, !.file = NoBuf], cache)
          /\ UNCHANGED remoteFailed
       \/ /\ ProjectReturn
          /\ req' = NoReq
          /\ remoteFailed' = TRUE
          /\ UNCHANGED << net, posts, cache, gets, tasks, lastEnd, disk >>
          /\ fic' = << >>
    /\ UNCHANGED << badUrl, orig, mapping, failed, missing, auto, created,
                    createdPrev >>
    /\ UNCHANGED visits
    /\ UNCHANGED unfinishedPrev

\* The GET of a media item answers (lines 478, 257), or fails (catch, line 501).
MediaFetched ==
    \E i \in 1..Len(tasks) :
    /\ pc.at = "p_media"
    /\ tasks[i].st = "get"
    /\ \/ LET f == fetched(cache, P._id, tasks[i].src)
          IN  /\ cache' = f.cache
              /\ tasks' = [tasks EXCEPT ![i].st = "upload", ![i].file = f.buf]
              /\ UNCHANGED remoteFailed
       \/ /\ tasks' = [tasks EXCEPT ![i].st = "done"]
          /\ remoteFailed' = TRUE
          /\ UNCHANGED cache
    /\ UNCHANGED << badUrl, orig, mapping, failed, missing, pc, net, req, disk,
                    auto, lastEnd, created, createdPrev, posts, gets >>
    /\ fic' = << >>
    /\ UNCHANGED visits
    /\ UNCHANGED unfinishedPrev

\* The upload of a media item answers (line 486), or fails (catch, line 501).
MediaUploaded ==
    \E i \in 1..Len(tasks) :
    /\ pc.at = "p_media"
    /\ tasks[i].st = "upload"
    /\ \/ /\ tasks' = [tasks EXCEPT ![i].st = "done", ![i].up = TRUE,
                                    ![i].res = [type |-> "image", media |-> tasks[i].file,
                                                url |-> None]]
          /\ UNCHANGED remoteFailed
       \/ /\ tasks' = [tasks EXCEPT ![i].st = "done"]
          /\ remoteFailed' = TRUE
    /\ UNCHANGED << badUrl, orig, mapping, failed, missing, cache, pc, net, req,
                    disk, auto, lastEnd, created, createdPrev, posts,
                    gets >>
    /\ fic' = << >>
    /\ UNCHANGED visits
    /\ UNCHANGED unfinishedPrev

\* allSettled as Promise.race would settle: with the first task.
allSettled_any(ts) ==
    \E i \in 1..Len(ts) : ts[i].st = "done"

\* Promise.all(mediaTasks) is settled once every task is.
allSettled(ts) ==
    \A i \in 1..Len(ts) : ts[i].st = "done"

\* Line 511: the results of the tasks, in order, without the undefined ones.
mediaResults(ts) ==
    LET results == [i \in 1..Len(ts) |-> ts[i].res]
    IN  SelectSeq(results, LAMBDA item : item # NoEntry)

\* MediaAllDone without the await of line 511: the POST leaves while media
\* tasks may still run.
MediaAllDone_noawait ==
    /\ pc.at = "p_media"
    /\ Post([req EXCEPT !.media = mediaResults(tasks)])
    /\ pc' = At("p_post", pc.g, pc.p, 0)
    /\ UNCHANGED << badUrl, orig, mapping, failed, missing, cache, tasks, disk,
                    auto, lastEnd, created, createdPrev, gets >>
    /\ fic' = << >>
    /\ UNCHANGED << visits, remoteFailed >>
    /\ UNCHANGED unfinishedPrev

\* Lines 511-513: Promise.all resolves, POST /api/projects leaves.
MediaAllDone ==
    /\ pc.at = "p_media"
    /\ allSettled(tasks)
    /\ Post([req EXCEPT !.media = mediaResults(tasks)])
    /\ pc' = At("p_post", pc.g, pc.p, 0)
    /\ UNCHANGED << badUrl, orig, mapping, failed, missing, cache, tasks, disk,
                    auto, lastEnd, created, createdPrev, gets >>
    /\ fic' = << >>
    /\ UNCHANGED << visits, remoteFailed >>
    /\ UNCHANGED unfinishedPrev

\* recordProject without line 519.
recordProject_nopush(m, id, newId) ==
    [m EXCEPT !.projects[id] = newId]

\* Lines 513-519: the answer to POST /api/projects is handled.
recordProject(m, id, newId) ==
    [m EXCEPT !.projects[id] = newId,
              !.successfullyProcessed = @ \cup {id}]

ProjectCreated ==
    /\ pc.at = "p_post"
    /\ net \in {"ok", "err"}
    /\ IF net = "ok"
       THEN /\ mapping' = recordProject(mapping, P._id, DocId)
            /\ pc' = At("subs", pc.g, pc.p, 1)
       ELSE /\ ProjectReturn
            /\ UNCHANGED mapping
    /\ net' = "none"
    /\ req' = NoReq
    /\ tasks' = << >>
    /\ UNCHANGED << badUrl, orig, failed, missing, cache, disk, auto, lastEnd,
                    created, createdPrev, posts, gets >>
    /\ fic' = << >>
    /\ UNCHANGED << visits, remoteFailed >>
    /\ UNCHANGED unfinishedPrev

\* The for loops of lines 390 and 521 over qualifyingSubmissions.
SubsLoop ==
    /\ pc.at = "subs"
    /\ IF pc.s <= Len(qualifyingSubmissions(P._id))
       THEN pc' = At("sub", pc.g, pc.p, pc.s)
       ELSE ProjectReturn
    /\ UNCHANGED << badUrl, orig, mapping, failed, missing, cache, net, req, tasks,
                    disk, auto, lastEnd, created, createdPrev, posts,
                    gets >>
    /\ fic' = << >>
    /\ UNCHANGED << visits, remoteFailed >>
    /\ UNCHANGED unfinishedPrev

\* ------------------------------------------------------- migrateSubmission
\* return from migrateSubmission: the for loop of migrateProject goes on.
SubReturn ==
    /\ pc' = At("subs", pc.g, pc.p, pc.s + 1)
    /\ req' = NoReq

newSubmission(url) ==
    [NoReq EXCEPT !.id = S._id, !.parent = mapping.projects[S.project], !.url = url]

isFailed(id) ==
    includes(failed, id)

\* imagePhase without the return of line 349.
imagePhase_noreturn(sub, rq, c, o, f, mi, bad) ==
    LET folder == sub.project
        name == Urls[sub.src].file
        flag == IF ~isLegacy(sub.src) THEN includes(f, sub._id) ELSE FALSE
        r == IF ~isLegacy(sub.src)
             THEN findCacheOrFetch(c, o, folder, sub.src, flag)
             ELSE findImageInCache(c, o, folder, name, FALSE)
        same == [at |-> "post", cache |-> c, failed |-> f, missing |-> mi, req |-> rq,
                 get |-> {}, call |-> << >>]
        call == << [for |-> sub._id, what |-> "image", key |-> <<folder, name>>,
                    isFailed |-> flag, inFailed |-> sub._id \in f,
                    hadCache |-> c[<<folder, name>>] # NoFile,
                    hadOrig |-> \/ <<folder, name>> \in o
                                \/ /\ decodeURIComponent(name).ok
                                   /\ <<folder, decodeURIComponent(name).v>> \in o,
                    out |-> r.out, from |-> r.buf.from] >>
    IN  IF sub.type # "image"
        THEN same
        ELSE IF sub.src = None \/ sub.src = bad
        THEN [same EXCEPT !.at = "throw"]
        ELSE CASE r.out = "bytes" ->
                    [same EXCEPT !.at = "s_img_upload", !.cache = r.cache, !.call = call,
                                 !.req = [rq EXCEPT !.file = r.buf]]
               [] r.out = "throw" ->
                    [same EXCEPT !.at = "return", !.cache = r.cache, !.call = call,
                                 !.failed = f \cup {sub._id}]
               [] r.out = "null" /\ ~isLegacy(sub.src) ->
                    [same EXCEPT !.at = "s_img_get", !.cache = r.cache, !.call = call,
                                 !.get = {sub.src}]
               [] OTHER ->
                    [same EXCEPT !.at = "post", !.cache = r.cache, !.call = call,
                                 !.missing = Append(mi, sub._id)]

\* Lines 319-373 for submission sub with the request rq built so far: what
\* the code decides and the memory it leaves.  at is the await it stops at,
\* "return" (the function returns), "post" (line 376 is reached) or "throw"
\* (new URL threw outside the try).
imagePhase(sub, rq, c, o, f, mi, bad) ==
    LET folder == sub.project
        name == Urls[sub.src].file
        flag == IF ~isLegacy(sub.src) THEN includes(f, sub._id) ELSE FALSE
        r == IF ~isLegacy(sub.src)
             THEN findCacheOrFetch(c, o, folder, sub.src, flag)
             ELSE findImageInCache(c, o, folder, name, FALSE)
        same == [at |-> "post", cache |-> c, failed |-> f, missing |-> mi, req |-> rq,
                 get |-> {}, call |-> << >>]
        call == << [for |-> sub._id, what |-> "image", key |-> <<folder, name>>,
                    isFailed |-> flag, inFailed |-> sub._id \in f,
                    hadCache |-> c[<<folder, name>>] # NoFile,
                    hadOrig |-> \/ <<folder, name>> \in o
                                \/ /\ decodeURIComponent(name).ok
                                   /\ <<folder, decodeURIComponent(name).v>> \in o,
                    out |-> r.out, from |-> r.buf.from] >>
    IN  IF sub.type # "image"
        THEN same
        ELSE IF sub.src = None \/ sub.src = bad
        THEN [same EXCEPT !.at = "throw"]
        ELSE CASE r.out = "bytes" ->
                    [same EXCEPT !.at = "s_img_upload", !.cache = r.cache, !.call = call,
                                 !.req = [rq EXCEPT !.file = r.buf]]
               [] r.out = "throw" ->
                    [same EXCEPT !.at = "return", !.cache = r.cache, !.call = call,
                                 !.failed = f \cup {sub._id}]
               [] r.out = "null" /\ ~isLegacy(sub.src) ->
                    [same EXCEPT !.at = "s_img_get", !.cache = r.cache, !.call = call,
                                 !.get = {sub.src}]
               [] OTHER ->
                    [same EXCEPT !.at = "return", !.cache = r.cache, !.call = call,
                                 !.missing = Append(mi, sub._id)]

ImagePhase(rq) ==
    LET r == imagePhase(S, rq, cache, orig, failed, missing, badUrl)
    IN  IF r.at = "throw"
        THEN /\ Fault
             /\ UNCHANGED << failed, missing >>
        ELSE /\ cache' = r.cache
             /\ failed' = r.failed
             /\ missing' = r.missing
             /\ gets' = gets \cup r.get
             /\ fic' = r.call
             /\ UNCHANGED << lastEnd, disk, tasks >>
             /\ CASE r.at = "post" ->
                       /\ Post(r.req)
                       /\ pc' = At("s_post", pc.g, pc.p, pc.s)
                  [] r.at = "return" ->
                       /\ SubReturn
                       /\ NoPost
                  [] OTHER ->
                       /\ req' = r.req
                       /\ pc' = At(r.at, pc.g, pc.p, pc.s)
                       /\ NoPost

\* Lines 263-318 up to the first await.
MigrateSubmissionEnter ==
    /\ pc.at = "sub"
    /\ IF includes(mapping.successfullyProcessed, S._id)
       THEN /\ SubReturn
            /\ UNCHANGED << cache, gets, failed, missing, net, posts, lastEnd,
                            disk, tasks >>
            /\ fic' = << >>
       ELSE IF S.src # None /\ S.type = "video" /\ isBad(S.src)
       THEN /\ Fault
            /\ UNCHANGED << failed, missing >>
       ELSE IF S.src # None /\ S.type = "video" /\ isLegacy(S.src)
       THEN /\ missing' = Append(missing, S._id)
            /\ SubReturn
            /\ UNCHANGED << cache, gets, failed, net, posts, lastEnd, disk, tasks >>
            /\ fic' = << >>
       ELSE LET rq == newSubmission(IF S.src # None /\ S.type = "video"
                                    THEN S.src ELSE None)
            IN  IF S.srcIcon = None \/ (~isBad(S.srcIcon) /\ isLegacy(S.srcIcon))
                THEN ImagePhase(rq)
                ELSE IF isBad(S.srcIcon)
                THEN /\ Fault
                     /\ UNCHANGED << failed, missing >>
                ELSE LET r == findCacheOrFetch(cache, orig, S.project, S.srcIcon,
                                               isFailed(S._id))
                     IN  /\ cache' = r.cache
                         /\ fic' = << Fic(cache, S._id, "srcIcon", S.project,
                                       Urls[S.srcIcon].file, isFailed(S._id), r) >>
                         /\ gets' = IF r.out = "null" THEN gets \cup {S.srcIcon} ELSE gets
                         /\ CASE r.out = "bytes" ->
                                   /\ req' = [rq EXCEPT !.file = r.buf]
                                   /\ pc' = At("s_icon_upload", pc.g, pc.p, pc.s)
                              [] r.out = "null" ->
                                   /\ req' = rq
                                   /\ pc' = At("s_icon_get", pc.g, pc.p, pc.s)
                              [] OTHER -> SubReturn
                         /\ NoPost
                         /\ UNCHANGED << failed, missing, lastEnd, disk, tasks >>
    /\ UNCHANGED << badUrl, orig, mapping, auto, created, createdPrev >>
    /\ visits' = [visits EXCEPT ![S._id] = @ + 1]
    /\ UNCHANGED remoteFailed
    /\ UNCHANGED unfinishedPrev

\* The GET of the author icon answers, or fails (catch, line 313).
SubIconFetched ==
    /\ pc.at = "s_icon_get"
    /\ \/ LET f == fetched(cache, S.project, S.srcIcon)
          IN  /\ cache' = f.cache
              /\ req' = [req EXCEPT !.file = f.buf]
              /\ pc' = At("s_icon_upload", pc.g, pc.p, pc.s)
              /\ UNCHANGED remoteFailed
       \/ /\ SubReturn
          /\ remoteFailed' = TRUE
          /\ UNCHANGED cache
    /\ UNCHANGED << badUrl, orig, mapping, failed, missing, net, tasks, disk, auto,
                    lastEnd, created, createdPrev, posts, gets >>
    /\ fic' = << >>
    /\ UNCHANGED visits
    /\ UNCHANGED unfinishedPrev

\* SubIconUploaded without the return of line 315: the image phase runs after
\* a failed upload as well.
SubIconUploaded_noreturn ==
    /\ pc.at = "s_icon_upload"
    /\ \/ /\ ImagePhase([req EXCEPT !.icon = req.file, !.file = NoBuf])
          /\ UNCHANGED remoteFailed
       \/ /\ ImagePhase([req EXCEPT !.file = NoBuf])
          /\ remoteFailed' = TRUE
    /\ UNCHANGED << badUrl, orig, mapping, auto, created, createdPrev >>
    /\ UNCHANGED visits
    /\ UNCHANGED unfinishedPrev

\* The upload of the author icon answers, or fails (catch, line 313).
SubIconUploaded ==
    /\ pc.at = "s_icon_upload"
    /\ \/ /\ ImagePhase([req EXCEPT !.icon = req.file, !.file = NoBuf])
          /\ UNCHANGED remoteFailed
       \/ /\ SubReturn
          /\ remoteFailed' = TRUE
          /\ UNCHANGED << cache, gets, failed, missing, net, posts, lastEnd, disk,
                          tasks >>
          /\ fic' = << >>
    /\ UNCHANGED << badUrl, orig, mapping, auto, created, createdPrev >>
    /\ UNCHANGED visits
    /\ UNCHANGED unfinishedPrev

\* The GET of the image answers, or fails (catch, line 367).
SubImageFetched ==
    /\ pc.at = "s_img_get"
    /\ \/ LET f == fetched(cache, S.project, S.src)
          IN  /\ cache' = f.cache
              /\ req' = [req EXCEPT !.file = f.buf]
              /\ pc' = At("s_img_upload", pc.g, pc.p, pc.s)
              /\ UNCHANGED << failed, remoteFailed >>
       \/ /\ failed' = failed \cup {S._id}
          /\ SubReturn
          /\ remoteFailed' = TRUE
          /\ UNCHANGED cache
    /\ UNCHANGED << badUrl, orig, mapping, missing, net, tasks, disk, auto,
                    lastEnd, created, createdPrev, posts, gets >>
    /\ fic' = << >>
    /\ UNCHANGED visits
    /\ UNCHANGED unfinishedPrev

\* The upload of the image answers (lines 332, 354), or fails (catch, line 367).
SubImageUploaded ==
    /\ pc.at = "s_img_upload"
    /\ \/ /\ Post([req EXCEPT !.media = << req.file >>])
          /\ pc' = At("s_post", pc.g, pc.p, pc.s)
          /\ UNCHANGED << failed, remoteFailed >>
       \/ /\ failed' = failed \cup {S._id}
          /\ SubReturn
          /\ remoteFailed' = TRUE
          /\ UNCHANGED << net, posts >>
    /\ UNCHANGED << badUrl, orig, mapping, missing, cache, tasks, disk, auto,
                    lastEnd, created, createdPrev, gets >>
    /\ fic' = << >>
    /\ UNCHANGED visits
    /\ UNCHANGED unfinishedPrev

\* recordSubmission without the return of line 381: line 383 runs after the
\* catch block as well.
recordSubmission_noreturn(m, f, id, answer) ==
    [mapping |-> [m EXCEPT !.successfullyProcessed = @ \cup {id}],
     failed |-> IF answer = "ok" THEN f ELSE f \cup {id}]

\* Lines 375-383: what the answer to POST /api/submissions leaves in the
\* mapping and in failed.
recordSubmission(m, f, id, answer) ==
    IF answer = "ok"
    THEN [mapping |-> [m EXCEPT !.successfullyProcessed = @ \cup {id}],
          failed |-> f]
    ELSE [mapping |-> m, failed |-> f \cup {id}]

\* SubmissionCreated without the failed.push of line 380.
SubmissionCreated_nopush ==
    /\ pc.at = "s_post"
    /\ net \in {"ok", "err"}
    /\ mapping' = IF net = "ok"
                  THEN recordSubmission(mapping, failed, S._id, net).mapping
                  ELSE mapping
    /\ UNCHANGED failed
    /\ SubReturn
    /\ net' = "none"
    /\ UNCHANGED << badUrl, orig, missing, cache, tasks, disk, auto, lastEnd,
                    created, createdPrev, posts, gets >>
    /\ fic' = << >>
    /\ UNCHANGED << visits, remoteFailed >>
    /\ UNCHANGED unfinishedPrev

\* Lines 375-383: the answer to POST /api/submissions is handled.
SubmissionCreated ==
    /\ pc.at = "s_post"
    /\ net \in {"ok", "err"}
    /\ LET r == recordSubmission(mapping, failed, S._id, net)
       IN  /\ mapping' = r.mapping
           /\ failed' = r.failed
    /\ SubReturn
    /\ net' = "none"
    /\ UNCHANGED << badUrl, orig, missing, cache, tasks, disk, auto, lastEnd,
                    created, createdPrev, posts, gets >>
    /\ fic' = << >>
    /\ UNCHANGED << visits, remoteFailed >>
    /\ UNCHANGED unfinishedPrev

\* ------------------------------------------------------------ specification
Next ==
    \/ MainNextGuild
    \/ MainFinish
    \/ MigrateGuildEnter
    \/ GuildIconFetched
    \/ GuildIconUploaded
    \/ GuildCreated
    \/ ProjectsLoop
    \/ MigrateProjectEnter
    \/ ProjectOgFetched
    \/ ProjectOgUploaded
    \/ MediaFetched
    \/ MediaUploaded
    \/ MediaAllDone
    \/ ProjectCreated
    \/ SubsLoop
    \/ MigrateSubmissionEnter
    \/ SubIconFetched
    \/ SubIconUploaded
    \/ SubImageFetched
    \/ SubImageUploaded
    \/ SubmissionCreated
    \/ RemoteRespond
    \/ Signal
    \/ AutoSave
    \/ Restart

\* Next with RestartRecording in the place of Restart.
NextRecording ==
    \/ MainNextGuild
    \/ MainFinish
    \/ MigrateGuildEnter
    \/ GuildIconFetched
    \/ GuildIconUploaded
    \/ GuildCreated
    \/ ProjectsLoop
    \/ MigrateProjectEnter
    \/ ProjectOgFetched
    \/ ProjectOgUploaded
    \/ MediaFetched
    \/ MediaUploaded
    \/ MediaAllDone
    \/ ProjectCreated
    \/ SubsLoop
    \/ MigrateSubmissionEnter
    \/ SubIconFetched
    \/ SubIconUploaded
    \/ SubImageFetched
    \/ SubImageUploaded
    \/ SubmissionCreated
    \/ RemoteRespond
    \/ Signal
    \/ AutoSave
    \/ RestartRecording

SpecRecording ==
    Init /\ [][NextRecording]_vars

Spec ==
    Init /\ [][Next]_vars

TypeOK ==
    /\ failed \subseteq SubmissionIds
    /\ mapping.successfullyProcessed \subseteq EntityIds
    /\ net \in {"none", "pending", "ok", "err"}
    /\ lastEnd \in {"none", "done", "signal", "fault"}

\* ================================================================= claims
\* C1: a run that follows a full walk (one that ended by itself, not by a
\* signal) issues no entity-creation request for a legacy id whose creation
\* succeeded in that walk.
C1_Idempotence ==
    \A x \in EntityIds : posts[x] > 0 => x \notin createdPrev

\* C1 witness: the previous walk created guild g1, this run skipped it and
\* has issued the creation request of its project p1.
C1_Witness ==
    /\ "g1" \in createdPrev
    /\ "p1" \notin createdPrev
    /\ posts["p1"] > 0

\* C2: the idmap.json written by the exit handler on a signal contains every
\* entity the CMS created before the signal.
C2_InterruptConsistency ==
    lastEnd = "signal" => created \subseteq disk.idmap.successfullyProcessed

\* C3: whatever way the process ends, idmap.json, missing.json and
\* failed.json hold the in-memory mapping, missing and failed at exit.
C3_FlushOnEveryExit ==
    pc.at = "exited" =>
        /\ disk.idmap = mapping
        /\ disk.missing = missing
        /\ disk.failed = failed

\* C4: no error raised while migrating one entity ends the run: the process
\* never ends through the uncaught-exception path.
C4_BadRecordNeverAborts ==
    lastEnd # "fault"

mapped(m) ==
    /\ \A g \in GuildIds : g \in m.successfullyProcessed => m.guilds[g] # UndefinedId
    /\ \A p \in ProjectIds : p \in m.successfullyProcessed => m.projects[p] # UndefinedId

\* C5: every processed guild and project has a defined entry in the id map,
\* in memory and in every snapshot written by the exit handler or the
\* auto-save tick; every project- and submission-creation request carries a
\* defined parent id.
C5_ProcessedImpliesMapped ==
    /\ mapped(mapping)
    /\ mapped(disk.idmap)
    /\ mapped(auto.idmap)
    /\ pc.at \in {"p_media", "p_post", "s_post"} => req.parent # UndefinedId

\* C5 witness: a submission-creation request is in flight for a project
\* created in an earlier invocation, after an auto-save tick saw a processed
\* entity.
C5_Witness ==
    /\ pc.at = "s_post"
    /\ S.project \in disk.idmap.successfullyProcessed
    /\ auto.idmap.successfullyProcessed # {}

\* C6: when the image of a submission in the Failed set is resolved and a
\* cached file exists for it, the cached entry is deleted and the cached
\* bytes are not what the resolution returns.
C6_StaleCacheInvalidated ==
    \A i \in 1..Len(fic) :
        (fic[i].what = "image" /\ fic[i].inFailed /\ fic[i].hadCache) =>
            /\ fic[i].out # "bytes"
            /\ cache[fic[i].key] = NoFile

\* C7: no GET is ever issued for the image of a submission of type image
\* whose src is on the legacy object-storage host.
C7_NoGetForLegacyImage ==
    \A i \in 1..Len(submissions) :
        (submissions[i].type = "image" /\ Urls[submissions[i].src].host = LegacyHost)
            => submissions[i].src \notin gets

\* C7 witness: the legacy-hosted image of sB was looked up locally and not
\* found.
C7_Witness ==
    \E i \in 1..Len(fic) :
        /\ fic[i].for = "sB"
        /\ fic[i].what = "image"
        /\ fic[i].out = "null"
        /\ ~fic[i].hadOrig

\* C8: for a submission pushed to missing in this run no creation request
\* was issued in this run, and the run added its id neither to
\* successfullyProcessed nor to failed.
C8_MissingNeverCreated ==
    \A i \in 1..Len(missing) :
        /\ posts[missing[i]] = 0
        /\ missing[i] \notin mapping.successfullyProcessed
        /\ missing[i] \in failed => missing[i] \in disk.failed

\* C8 witness: the run is over with a legacy-hosted image (sB) and a
\* legacy-hosted video (sC) in missing.
C8_Witness ==
    /\ lastEnd = "done"
    /\ missing = << "sB", "sC" >>

\* The media list the claim expects: every video item, and every image item
\* whose upload the CMS accepted.
expectedMedia ==
    LET item(i) ==
            IF P.media[i].type = "video"
            THEN [type |-> "video", media |-> NoBuf, url |-> P.media[i].src]
            ELSE IF tasks[i].up
            THEN [type |-> "image", media |-> tasks[i].file, url |-> None]
            ELSE NoEntry
    IN  SelectSeq([i \in 1..Len(tasks) |-> item(i)], LAMBDA e : e # NoEntry)

\* C9: the project-creation request is issued only once every media task has
\* completed, and its media list is exactly the video items and the images
\* whose fetch and upload succeeded.
C9_MediaFanIn ==
    pc.at = "p_post" =>
        /\ Len(tasks) = Len(P.media)
        /\ \A i \in 1..Len(tasks) : tasks[i].st = "done"
        /\ req.media = expectedMedia

\* C9 witness: three media items, the upload of one image failed, the
\* request carries the two others.
C9_Witness ==
    /\ pc.at = "p_post"
    /\ Len(tasks) = 3
    /\ Len(req.media) = 2
    /\ \E i \in 1..3 : tasks[i].file # NoBuf /\ ~tasks[i].up
    /\ \E i \in 1..3 : tasks[i].up

\* C10: findImageInCache returns bytes or null and never raises, whatever
\* the cache, the originals and isFailed, for a file name that decodes.
C10_FindImageInCacheTotal ==
    \A i \in 1..Len(fic) :
        decodeURIComponent(fic[i].key[2]).ok => fic[i].out \in {"bytes", "null"}

\* The media calls (GET or upload) of the project being migrated that have
\* not been answered yet.
mediaOutstanding ==
    {i \in 1..Len(tasks) : tasks[i].st \in {"get", "upload"}}

\* The legacy id of the entity whose creation request the walk awaits.
awaited ==
    CASE pc.at = "g_post" -> G._id
      [] pc.at = "p_post" -> P._id
      [] pc.at = "s_post" -> S._id
      [] OTHER -> None

\* C11: the walk is strictly sequential.  An entity-creation request is
\* outstanding only while the walk awaits it, it is the request of the one
\* entity the walk is at, and no media call is outstanding then; media calls
\* are outstanding only during the media phase of the one project the walk is
\* at, with no creation request outstanding; a creation request leaves, and
\* the migration of the next entity starts, only when no creation request and
\* no media call are outstanding.
C11_SequentialWalk ==
    /\ [](/\ net # "none" => pc.at \in PostLabels /\ req.id = awaited
          /\ pc.at \in PostLabels => mediaOutstanding = {}
          /\ mediaOutstanding # {} => pc.at = "p_media" /\ net = "none")
    /\ [][(pc.at # "exited" /\ (posts' # posts \/ visits' # visits))
             => (net = "none" /\ mediaOutstanding = {})]_vars
    /\ [][(pc.at # "exited" /\ posts' # posts)
             => (\E x \in EntityIds :
                    /\ posts' = [posts EXCEPT ![x] = @ + 1]
                    /\ net' = "pending"
                    /\ req'.id = x)]_vars

\* C11 witness: two media calls of project p1 are outstanding at once, and no
\* creation request is.
C11_Witness ==
    /\ pc.at = "p_media"
    /\ Cardinality(mediaOutstanding) = 2
    /\ net = "none"

\* C12: when the answer to the creation request of a submission is handled,
\* a failure adds the id to failed and leaves successfullyProcessed as it
\* was, a success adds the id to successfullyProcessed and leaves failed as
\* it was; and a submission id enters successfullyProcessed only in the step
\* that handles a successful answer to its own creation request.
C12_SubmissionOutcome ==
    /\ [][(pc.at = "s_post" /\ pc'.at = "subs")
             => IF net = "err"
                THEN /\ failed' = failed \cup {S._id}
                     /\ mapping' = mapping
                     /\ S._id \notin mapping'.successfullyProcessed
                ELSE /\ net = "ok"
                     /\ mapping'.successfullyProcessed =
                            mapping.successfullyProcessed \cup {S._id}
                     /\ failed' = failed]_vars
    /\ [][\A x \in SubmissionIds :
             (x \in mapping'.successfullyProcessed
                 /\ x \notin mapping.successfullyProcessed)
             => (pc.at = "s_post" /\ net = "ok" /\ req.id = x /\ x \in created)]_vars

\* C12 witness: in one run the creation of submission sA failed and that of
\* submission sB succeeded.
C12_Witness ==
    /\ posts["sA"] = 1
    /\ "sA" \notin created
    /\ "sA" \in failed
    /\ "sA" \notin mapping.successfullyProcessed
    /\ "sB" \in created
    /\ "sB" \in mapping.successfullyProcessed
    /\ "sB" \notin failed

\* The step that handles a failed answer to the creation request of the
\* entity the walk is at.
CreationErrorHandled ==
    /\ pc.at \in PostLabels
    /\ net = "err"
    /\ pc'.at \notin PostLabels \cup {"exited"}

\* C13 as stated: whenever the creation request of a guild, a project or a
\* submission fails, failed is after the handling of the error what it was
\* before, and the entity is not in successfullyProcessed.
C13_FailedUntouched ==
    [][CreationErrorHandled
         => (failed' = failed /\ awaited \notin mapping'.successfullyProcessed)]_vars

\* C13 amended: a failed creation request of a guild or of a project leaves
\* failed as it was; a failed creation request of a submission adds the id of
\* that submission to failed and nothing else; in the three cases the mapping
\* is left as it was and the entity is not in successfullyProcessed.
C13_FailedOnlyForSubmission ==
    [][CreationErrorHandled
         => /\ failed' = IF pc.at = "s_post" THEN failed \cup {awaited} ELSE failed
            /\ mapping' = mapping
            /\ awaited \notin mapping'.successfullyProcessed]_vars

\* C13 witness: in one run the creation of submission sA failed, then that of
\* guild g2; the walk is past both.
C13_Witness ==
    /\ posts["sA"] = 1
    /\ "sA" \notin created
    /\ "sA" \in failed
    /\ posts["g2"] = 1
    /\ "g2" \notin created
    /\ "g2" \notin mapping.successfullyProcessed
    /\ pc = At("main", 3, 0, 0)

\* The projects of a guild, or the submissions of a project, by legacy id.
childrenOf(x) ==
    {projects[i]._id : i \in {j \in 1..Len(projects) : projects[j].guild = x}}
        \cup {submissions[i]._id :
                 i \in {j \in 1..Len(submissions) : submissions[j].project = x}}

descendantsOf(x) ==
    childrenOf(x) \cup UNION {childrenOf(c) : c \in childrenOf(x)}

\* The step in which migrateGuild or migrateProject returns for an entity it
\* did not create: a lookup threw, the GET or the upload of the icon or of the
\* open-graph image failed, or the creation request failed.
BranchAborted ==
    \/ pc.at \in {"guild", "g_get", "g_upload", "g_post"} /\ pc'.at = "main"
    \/ pc.at \in {"project", "p_get", "p_upload", "p_post"} /\ pc'.at = "projects"

aborted ==
    IF pc.at \in {"guild", "g_get", "g_upload", "g_post"} THEN G._id ELSE P._id

\* C14: when the creation of a guild or of a project fails, or the resolution
\* or the upload of its icon or open-graph image fails, the mapping is left as
\* it was, the entity is neither in the id map nor in successfullyProcessed,
\* no request leaves and the walk goes to the next sibling; and in a run no
\* descendant of an entity is visited, and no creation request is issued for
\* it, unless that entity is in successfullyProcessed with an id in the map.
C14_BranchAbort ==
    /\ [][BranchAborted
            => /\ mapping' = mapping
               /\ aborted \notin mapping'.successfullyProcessed
               /\ (IF aborted \in GuildIds THEN mapping'.guilds[aborted]
                   ELSE mapping'.projects[aborted]) = UndefinedId
               /\ posts' = posts
               /\ net' = "none"
               /\ pc' = IF aborted \in GuildIds
                        THEN At("main", pc.g + 1, 0, 0)
                        ELSE At("projects", pc.g, pc.p + 1, 0)]_vars
    /\ [](\A x \in GuildIds \cup ProjectIds : \A d \in descendantsOf(x) :
             (visits[d] > 0 \/ posts[d] > 0)
             => /\ x \in mapping.successfullyProcessed
                /\ (IF x \in GuildIds THEN mapping.guilds[x]
                    ELSE mapping.projects[x]) # UndefinedId)

\* C14 witness: the creation of guild g1 failed in this run, none of its
\* descendants was visited, and the walk has gone on to create guild g2 and
\* to fail on the creation of its project p2.
C14_Witness ==
    /\ posts["g1"] = 1
    /\ "g1" \notin created
    /\ "g1" \notin mapping.successfullyProcessed
    /\ \A d \in descendantsOf("g1") : visits[d] = 0 /\ posts[d] = 0
    /\ "g2" \in created
    /\ posts["p2"] = 1
    /\ "p2" \notin created
    /\ "p2" \notin mapping.successfullyProcessed
    /\ \A d \in descendantsOf("p2") : visits[d] = 0
    /\ lastEnd = "done"

\* The step in which an invocation ends without having been interrupted by a
\* signal.
RunEnds ==
    /\ lastEnd = "none"
    /\ lastEnd' \in {"done", "fault"}

\* C15: a guild or a project that is in successfullyProcessed when a run
\* starts gets no creation request in that run, and when a run that no
\* signal interrupts ends, every child of such a guild or project that was
\* not in successfullyProcessed at the start has been visited.
C15_ResumeThroughProcessed ==
    /\ [](\A x \in GuildIds \cup ProjectIds :
             (lastEnd = "none" /\ x \in disk.idmap.successfullyProcessed)
             => posts[x] = 0)
    /\ [][RunEnds
            => \A x \in (GuildIds \cup ProjectIds) \cap disk.idmap.successfullyProcessed :
                  \A c \in childrenOf(x) :
                      c \notin disk.idmap.successfullyProcessed => visits'[c] > 0]_vars

\* The submissions whose author icon is fetched and uploaded (lines 288-291).
iconSubmissions ==
    {submissions[i]._id :
        i \in {j \in 1..Len(submissions) :
                  /\ submissions[j].srcIcon # None
                  /\ ~isLegacy(submissions[j].srcIcon)}}

\* The step in which the catch block of line 313 runs: the lookup of the
\* author icon threw, or its GET or its upload failed.
IconFailed ==
    \/ /\ pc.at = "sub"
       /\ pc'.at = "subs"
       /\ fic' # << >>
       /\ fic'[1].what = "srcIcon"
    \/ pc.at = "s_icon_get" /\ pc'.at = "subs"
    \/ pc.at = "s_icon_upload" /\ pc'.at = "subs" /\ fic' = << >>

C17_NoRetryWithinRun ==
    /\ [](\A x \in EntityIds : visits[x] <= 1 /\ posts[x] <= 1)
    /\ [](\A x \in EntityIds :
             (posts[x] > 0 /\ x \notin created /\ net = "none")
             => x \notin mapping.successfullyProcessed)
    /\ [][RunEnds => \A x \in unfinishedPrev : visits'[x] > 0]_vars

\* The part of C17 about one run: every legacy entity is visited at most once
\* and gets at most one creation request, and an entity whose creation
\* request failed is absent from successfullyProcessed.
C17_WithinRun ==
    /\ \A x \in EntityIds : visits[x] <= 1 /\ posts[x] <= 1
    /\ \A x \in EntityIds :
          (posts[x] > 0 /\ x \notin created /\ net = "none")
          => x \notin mapping.successfullyProcessed

\* A step in which the walk stays where it is: the timer callback ran.
TickStep ==
    /\ pc' = pc
    /\ net' = net
    /\ tasks' = tasks

\* C18: a tick of the auto-save timer leaves the in-memory mapping, failed
\* and missing and the files idmap.json, missing.json and failed.json as they
\* were, and leaves in the auto-save files the in-memory mapping and missing
\* of the moment of the tick; nothing but a tick writes the auto-save files.
C18_AutoSaveReadOnly ==
    /\ [][TickStep
            => /\ mapping' = mapping
               /\ failed' = failed
               /\ missing' = missing
               /\ disk' = disk
               /\ auto' = [idmap |-> mapping, missing |-> missing]]_vars
    /\ [][auto' # auto => TickStep]_vars

\* C18 witness: in the middle of a run the auto-save files hold a mapping and
\* a missing list that the primary files do not hold yet.
C18_Witness ==
    /\ lastEnd = "none"
    /\ auto.idmap = mapping
    /\ auto.idmap # disk.idmap
    /\ auto.missing = missing
    /\ missing # << >>
    /\ disk.missing = << >>

\* The image of a submission is in images/orig, or its URL is one the code
\* may fetch from.
obtainable(su) ==
    \/ <<su.project, Urls[su.src].file>> \in orig
    \/ <<su.project, decodeURIComponent(Urls[su.src].file).v>> \in orig
    \/ ~isLegacy(su.src)

\* The walk of this invocation is over (line 630 is reached) and no remote
\* call of the invocation failed.
CleanWalkOver ==
    /\ pc.at = "main"
    /\ pc.g > Len(guilds)
    /\ ~remoteFailed

\* C19: when a run in which every remote call succeeded reaches the end of
\* its walk, every image submission that was in failed.json when the run
\* started, whose file name decodes and whose image is in images/orig or can
\* be fetched, is in successfullyProcessed, whatever images/cache held.
C19_FailedRecovers ==
    CleanWalkOver
    => \A i \in 1..Len(submissions) :
          (/\ submissions[i]._id \in disk.failed
           /\ submissions[i].type = "image"
           /\ decodeURIComponent(Urls[submissions[i].src].file).ok
           /\ obtainable(submissions[i]))
          => submissions[i]._id \in mapping.successfullyProcessed

\* buf holds the content of url: its bytes as fetched from url, or the file
\* of images/orig that has its name in folder.
contentOf(folder, url, buf) ==
    buf.content \in {NetContent(url),
                     OrigContent(folder, Urls[url].file),
                     OrigContent(folder, decodeURIComponent(Urls[url].file).v)}

\* C20: every Buffer findCacheOrFetch(folder, url) has returned, to a media
\* task or to the migration of a guild, a project or a submission, holds the
\* content of that url.
C20_CacheReturnsRequested ==
    /\ \A i \in 1..Len(tasks) :
          tasks[i].st = "upload" => contentOf(P._id, tasks[i].src, tasks[i].file)
    /\ pc.at = "g_upload" => contentOf("guilds", G.image, req.file)
    /\ pc.at = "p_upload" => contentOf(P._id, P.ogImage, req.file)
    /\ pc.at = "s_icon_upload" => contentOf(S.project, S.srcIcon, req.file)
    /\ (pc.at = "s_img_upload" /\ ~isLegacy(S.src))
           => contentOf(S.project, S.src, req.file)

=============================================================================
